---- MODULE Spec2Model ----
(***************************************************************************)
(* Model of spacex-dash-app.py: the module-level load of the launch        *)
(* records (with its fallback table) and the two Dash callbacks            *)
(* get_pie_chart and get_scatter_chart that query the loaded table.        *)
(*                                                                         *)
(* A DataFrame is a sequence of rows; a row is a function from the column  *)
(* names of the source to the cell values.  A figure is represented by the *)
(* data frame (scatter) or the names -> values mapping (pie) it is drawn   *)
(* from.                                                                   *)
(***************************************************************************)
EXTENDS Integers, Sequences, FiniteSets, TLC

\* ------------------------------------------------------------------ bounds
\* Longest table read from the input file.
MaxLen == 2
\* Largest payload mass appearing in the input file.
MaxPayload == 1

\* --------------------------------------------------------------- constants
\* RangeSlider min / max (the extreme range a user can select).
SliderMin == 0
SliderMax == 10000

\* The float NaN that pandas returns for max()/min() of an empty column.
\* Every comparison involving it is False.
NaN == -1

\* Dropdown sentinel meaning "no site filter".
ALL == "ALL"

\* ------------------------------------------------------------ data domain
Row(site, payload, class, booster) ==
    ("Launch Site" :> site) @@ ("Payload Mass (kg)" :> payload) @@
    ("class" :> class) @@ ("Booster Version Category" :> booster)

\* Variant: a dummy dataframe without a successful launch.
FallbackDf_noSuccess ==
    << Row("CCAFS LC-40", 500, 0, "v1.0"),
       Row("VAFB SLC-4E", 600, 0, "v1.1"),
       Row("KSC LC-39A", 700, 0, "FT"),
       Row("CCAFS SLC-40", 800, 0, "v1.0") >>

\* The dummy dataframe built when the file is not found.
FallbackDf ==
    << Row("CCAFS LC-40", 500, 0, "v1.0"),
       Row("VAFB SLC-4E", 600, 1, "v1.1"),
       Row("KSC LC-39A", 700, 1, "FT"),
       Row("CCAFS SLC-40", 800, 0, "v1.0") >>

\* Sites, payloads, outcomes and booster tags of the rows of an input file.
FileSites == {"CCAFS LC-40", "VAFB SLC-4E"}
FilePayloads == 0..MaxPayload
Classes == {0, 1}
FileBoosters == {"FT"}

FileRows == { Row(s, p, c, b) : s \in FileSites, p \in FilePayloads,
                                c \in Classes, b \in FileBoosters }

RECURSIVE SeqsUpTo(_, _)
SeqsUpTo(S, n) ==
    IF n = 0 THEN { <<>> }
    ELSE LET shorter == SeqsUpTo(S, n - 1)
         IN  shorter \cup { Append(q, x) : q \in { t \in shorter : Len(t) = n - 1 }, x \in S }

\* Two longer tables: four launches at three sites with distinct payloads,
\* and a table that repeats a row and holds a payload above the slider's max.
SampleTables ==
    { << Row("CCAFS LC-40", 500, 1, "v1.0"), Row("VAFB SLC-4E", 600, 0, "v1.1"),
         Row("KSC LC-39A", 700, 1, "FT"), Row("CCAFS LC-40", 800, 0, "v1.0") >>,
      << Row("VAFB SLC-4E", 1, 1, "FT"), Row("CCAFS LC-40", 0, 0, "FT"),
         Row("VAFB SLC-4E", 1, 1, "FT"), Row("VAFB SLC-4E", 15600, 0, "B5"),
         Row("KSC LC-39A", 1, 1, "FT") >> }

\* What may lie at the path "spacex_launch_dash.csv".
Files ==
    { [state |-> "missing", rows |-> <<>>],
      [state |-> "empty_file", rows |-> <<>>],
      [state |-> "ragged_rows", rows |-> <<>>] }
    \cup { [state |-> "ok", rows |-> d] : d \in SeqsUpTo(FileRows, MaxLen) \cup SampleTables }

\* A dropdown value that is no option of any table.
UnknownSite == "Boca Chica"

VARIABLES
    file,          \* the input file (never written by the program)
    pc,            \* "start" | "loaded" | "crashed"
    spacex_df,     \* the module global; unbound (<<>>) unless pc = "loaded"
    max_payload,
    min_payload,
    launch_sites,
    notice,        \* what the loader printed
    last           \* the last callback invocation: its arguments and its figure

vars == <<file, pc, spacex_df, max_payload, min_payload, launch_sites, notice, last>>

\* ------------------------------------------------------- pandas primitives
\* Comparison of a cell with a scalar; False whenever NaN takes part.
Ge(x, y) == x # NaN /\ y # NaN /\ x >= y
Le(x, y) == x # NaN /\ y # NaN /\ x <= y

\* Variants of the mask: exclusive lower bound; "|" written for "&"; the lower
\* comparison turned round.
RangeMask_exclusive(df, low, high) ==
    [i \in DOMAIN df |-> Ge(df[i]["Payload Mass (kg)"], low + 1)
                         /\ Le(df[i]["Payload Mass (kg)"], high)]

RangeMask_or(df, low, high) ==
    [i \in DOMAIN df |-> Ge(df[i]["Payload Mass (kg)"], low)
                         \/ Le(df[i]["Payload Mass (kg)"], high)]

RangeMask_flipped(df, low, high) ==
    [i \in DOMAIN df |-> Le(df[i]["Payload Mass (kg)"], low)
                         /\ Le(df[i]["Payload Mass (kg)"], high)]

\* df[col] >= low  &  df[col] <= high : the boolean mask, one entry per row.
RangeMask(df, low, high) ==
    [i \in DOMAIN df |-> Ge(df[i]["Payload Mass (kg)"], low)
                         /\ Le(df[i]["Payload Mass (kg)"], high)]

\* df[col] == value
EqMask(df, col, value) == [i \in DOMAIN df |-> df[i][col] = value]

\* df[mask] : the rows whose mask entry is True, in the order of df.
RECURSIVE BoolIndex(_, _)
BoolIndex(df, mask) ==
    IF df = <<>> THEN <<>>
    ELSE IF Head(mask) THEN <<Head(df)>> \o BoolIndex(Tail(df), Tail(mask))
         ELSE BoolIndex(Tail(df), Tail(mask))

\* Series.max() / Series.min(); NaN for an empty column.
SeriesMax(df, col) ==
    IF df = <<>> THEN NaN
    ELSE CHOOSE m \in { df[i][col] : i \in DOMAIN df } :
             \A i \in DOMAIN df : df[i][col] <= m

\* Variant: min() taken with the comparison of max().
SeriesMin_asMax(df, col) ==
    IF df = <<>> THEN NaN
    ELSE CHOOSE m \in { df[i][col] : i \in DOMAIN df } :
             \A i \in DOMAIN df : df[i][col] <= m

SeriesMin(df, col) ==
    IF df = <<>> THEN NaN
    ELSE CHOOSE m \in { df[i][col] : i \in DOMAIN df } :
             \A i \in DOMAIN df : df[i][col] >= m

\* Series.unique()
Unique(df, col) == { df[i][col] : i \in DOMAIN df }

\* Number of rows of df whose column col holds key.
RECURSIVE CountRows(_, _, _)
CountRows(df, col, key) ==
    IF df = <<>> THEN 0
    ELSE (IF Head(df)[col] = key THEN 1 ELSE 0) + CountRows(Tail(df), col, key)

\* df.groupby(col).size() and df[col].value_counts(): one entry per value
\* that occurs in the column, holding the number of its rows.
GroupSize(df, col) == [k \in Unique(df, col) |-> CountRows(df, col, k)]

\* Variant: the labels of the two outcomes exchanged.
OutcomeLabel_swapped(c) == IF c = 1 THEN "Failure" ELSE IF c = 0 THEN "Success" ELSE "nan"

\* .map({1: 'Success', 0: 'Failure'})
OutcomeLabel(c) == IF c = 1 THEN "Success" ELSE IF c = 0 THEN "Failure" ELSE "nan"

\* ------------------------------------------------------------------ loader
\* pd.read_csv: the exception it raises ("none" when it returns) and the frame.
read_csv(f) ==
    CASE f.state = "missing"     -> [exc |-> "FileNotFoundError", df |-> <<>>]
      [] f.state = "empty_file"  -> [exc |-> "EmptyDataError", df |-> <<>>]
      [] f.state = "ragged_rows" -> [exc |-> "ParserError", df |-> <<>>]
      [] OTHER                   -> [exc |-> "none", df |-> f.rows]

\* Variant: a bare "except Exception".
Catches_any(exc) == exc # "none"

\* The except clause: which exceptions the handler takes.
Catches(exc) == exc = "FileNotFoundError"

NotFoundMessage ==
    "Error: spacex_launch_dash.csv not found. Please ensure the file is in the correct directory."

\* Lines 11-29: read the file, fall back to the dummy frame when it is not
\* found, then derive the slider defaults and the dropdown options.  Any other
\* exception leaves the module body and ends the program.
LoadBound(df, msg) ==
    /\ pc' = "loaded"
    /\ spacex_df' = df
    /\ notice' = msg
    /\ max_payload' = SeriesMax(df, "Payload Mass (kg)")
    /\ min_payload' = SeriesMin(df, "Payload Mass (kg)")
    /\ launch_sites' = Unique(df, "Launch Site")

load ==
    /\ pc = "start"
    /\ LET r == read_csv(file) IN
         IF r.exc = "none" THEN LoadBound(r.df, "")
         ELSE IF Catches(r.exc) THEN LoadBound(FallbackDf, NotFoundMessage)
         ELSE /\ pc' = "crashed"
              /\ UNCHANGED <<spacex_df, max_payload, min_payload, launch_sites, notice>>
    /\ UNCHANGED <<file, last>>

\* Layout defaults: dropdown value and slider value.
DropdownDefault == ALL
SliderDefault == <<min_payload, max_payload>>

\* ---------------------------------------------------------------- queries
\* Variant: the ALL branch groups spacex_df itself, not successful_df.
PieData_allRows(df, entered_site) ==
    IF entered_site = ALL
    THEN GroupSize(df, "Launch Site")
    ELSE LET filtered_df == BoolIndex(df, EqMask(df, "Launch Site", entered_site))
             site_outcome_counts == GroupSize(filtered_df, "class")
         IN  [o \in { OutcomeLabel(c) : c \in DOMAIN site_outcome_counts } |->
                 site_outcome_counts[CHOOSE c \in DOMAIN site_outcome_counts :
                                         OutcomeLabel(c) = o]]

\* Variant: the ALL branch keeps every site of the table, with count 0 for a
\* site without a successful launch.
PieData_zeroFilled(df, entered_site) ==
    IF entered_site = ALL
    THEN LET successful_df == BoolIndex(df, EqMask(df, "class", 1))
         IN  [k \in Unique(df, "Launch Site") |-> CountRows(successful_df, "Launch Site", k)]
    ELSE LET filtered_df == BoolIndex(df, EqMask(df, "Launch Site", entered_site))
             site_outcome_counts == GroupSize(filtered_df, "class")
         IN  [o \in { OutcomeLabel(c) : c \in DOMAIN site_outcome_counts } |->
                 site_outcome_counts[CHOOSE c \in DOMAIN site_outcome_counts :
                                         OutcomeLabel(c) = o]]

\* get_pie_chart: the names -> values mapping the pie is drawn from.
PieData(df, entered_site) ==
    IF entered_site = ALL
    THEN LET successful_df == BoolIndex(df, EqMask(df, "class", 1))
         IN  GroupSize(successful_df, "Launch Site")
    ELSE LET filtered_df == BoolIndex(df, EqMask(df, "Launch Site", entered_site))
             site_outcome_counts == GroupSize(filtered_df, "class")
         IN  [o \in { OutcomeLabel(c) : c \in DOMAIN site_outcome_counts } |->
                 site_outcome_counts[CHOOSE c \in DOMAIN site_outcome_counts :
                                         OutcomeLabel(c) = o]]

\* get_scatter_chart: the data frame the scatter is drawn from.
ScatterData(df, entered_site, payload_range) ==
    LET low == payload_range[1]
        high == payload_range[2]
        filtered_df == BoolIndex(df, RangeMask(df, low, high))
    IN  IF entered_site = ALL
        THEN filtered_df
        ELSE BoolIndex(filtered_df, EqMask(filtered_df, "Launch Site", entered_site))

NoCall == [fn |-> "none", site |-> ALL, range |-> <<0, 0>>, pie |-> <<>>, scatter |-> <<>>]

get_pie_chart(entered_site) ==
    /\ pc = "loaded"
    /\ last' = [fn |-> "get_pie_chart", site |-> entered_site, range |-> <<0, 0>>,
                pie |-> PieData(spacex_df, entered_site), scatter |-> <<>>]
    /\ UNCHANGED <<file, pc, spacex_df, max_payload, min_payload, launch_sites, notice>>

\* Variant: the filtered frame is assigned to the global spacex_df.
get_scatter_chart_rebinding(entered_site, payload_range) ==
    /\ pc = "loaded"
    /\ last' = [fn |-> "get_scatter_chart", site |-> entered_site, range |-> payload_range,
                pie |-> <<>>,
                scatter |-> ScatterData(spacex_df, entered_site, payload_range)]
    /\ spacex_df' = BoolIndex(spacex_df, RangeMask(spacex_df, payload_range[1], payload_range[2]))
    /\ UNCHANGED <<file, pc, max_payload, min_payload, launch_sites, notice>>

get_scatter_chart(entered_site, payload_range) ==
    /\ pc = "loaded"
    /\ last' = [fn |-> "get_scatter_chart", site |-> entered_site, range |-> payload_range,
                pie |-> <<>>,
                scatter |-> ScatterData(spacex_df, entered_site, payload_range)]
    /\ UNCHANGED <<file, pc, spacex_df, max_payload, min_payload, launch_sites, notice>>

\* Values the site dropdown callback input can carry: the options built from
\* the loaded table, and one value that is no option.
SiteArgs == {ALL} \cup launch_sites \cup {UnknownSite}

\* Ranges the slider callback input can carry.
RangeEnds == 0..(MaxPayload + 1)
RangeArgs ==
    (RangeEnds \X RangeEnds)
    \cup { SliderDefault, <<SliderMin, SliderMax>>,
           <<FallbackDf[2]["Payload Mass (kg)"], FallbackDf[3]["Payload Mass (kg)"]>> }

\* ----------------------------------------------------------- specification
Init ==
    /\ file \in Files
    /\ pc = "start"
    /\ spacex_df = <<>>
    /\ max_payload = NaN
    /\ min_payload = NaN
    /\ launch_sites = {}
    /\ notice = ""
    /\ last = NoCall

Next ==
    \/ load
    \/ \E s \in SiteArgs : get_pie_chart(s)
    \/ \E s \in SiteArgs, r \in RangeArgs : get_scatter_chart(s, r)

Spec == Init /\ [][Next]_vars

\* ------------------------------------------------------------- properties
Payload(r) == r["Payload Mass (kg)"]
Site(r) == r["Launch Site"]

AfterPie == pc = "loaded" /\ last.fn = "get_pie_chart"
AfterScatter == pc = "loaded" /\ last.fn = "get_scatter_chart"

\* The table the loader binds for the file at hand.
LoadedTable == IF file.state = "ok" THEN file.rows ELSE FallbackDf

\* Positions of the rows a (site, range) filter is to keep.
Matching(df, site, range) ==
    { i \in DOMAIN df : /\ range[1] <= Payload(df[i])
                        /\ Payload(df[i]) <= range[2]
                        /\ (site # ALL => Site(df[i]) = site) }

\* The k-th smallest member of a set of positions.
KthOf(idx, k) == CHOOSE i \in idx : Cardinality({ j \in idx : j <= i }) = k

\* res lists exactly the rows of df at the positions idx, in increasing position.
ListsExactly(res, df, idx) ==
    /\ Len(res) = Cardinality(idx)
    /\ \A k \in 1..Len(res) : res[k] = df[KthOf(idx, k)]

RECURSIVE IsSubseq(_, _)
IsSubseq(a, b) ==
    IF a = <<>> THEN TRUE
    ELSE IF b = <<>> THEN FALSE
    ELSE IF Head(a) = Head(b) THEN IsSubseq(Tail(a), Tail(b))
    ELSE IsSubseq(a, Tail(b))

\* Value of a mapping at a key, 0 for an absent key.
CountAt(m, k) == IF k \in DOMAIN m THEN m[k] ELSE 0

RECURSIVE SumOver(_, _)
SumOver(m, keys) ==
    IF keys = {} THEN 0
    ELSE LET k == CHOOSE x \in keys : TRUE IN m[k] + SumOver(m, keys \ {k})

\* Number of rows of df at site s (any site when s = ALL) with outcome c.
NumRows(df, s, c) ==
    Cardinality({ i \in DOMAIN df : (s # ALL => Site(df[i]) = s) /\ df[i]["class"] = c })

\* C1: get_scatter_chart's frame is exactly the rows of spacex_df with
\* low <= payload <= high (both inclusive) and, for a site other than ALL, that
\* site; in the order of spacex_df, none repeated, none dropped.
C1_FilteredRecordsExact ==
    AfterScatter =>
        ListsExactly(last.scatter, spacex_df, Matching(spacex_df, last.site, last.range))

\* A site filter and a range that keep two rows and drop others, one kept row
\* lying on the lower bound and one on the upper bound.
C1_Witness ==
    /\ AfterScatter
    /\ last.site # ALL
    /\ Len(last.scatter) = 2
    /\ Len(spacex_df) >= 4
    /\ last.range[1] < last.range[2]
    /\ \E i, j \in DOMAIN last.scatter :
          Payload(last.scatter[i]) = last.range[1] /\ Payload(last.scatter[j]) = last.range[2]

\* C2: with ALL, get_pie_chart maps each site to the number of its rows with
\* class 1, and the counts add up to the number of rows with class 1.
C2_AllCountsSuccesses ==
    (AfterPie /\ last.site = ALL) =>
        /\ \A s \in DOMAIN last.pie : last.pie[s] = NumRows(spacex_df, s, 1)
        /\ SumOver(last.pie, DOMAIN last.pie) = NumRows(spacex_df, ALL, 1)

\* Several sites with successes, one of them with more than one, and a failure.
C2_Witness ==
    /\ AfterPie /\ last.site = ALL
    /\ Cardinality(DOMAIN last.pie) >= 2
    /\ \E s \in DOMAIN last.pie : last.pie[s] >= 2
    /\ NumRows(spacex_df, ALL, 0) >= 1

\* C3: for a site S other than ALL, get_pie_chart's mapping is keyed by
\* Success / Failure, each count is the number of rows at S with that outcome
\* (an absent key counting 0), and the two add up to the number of rows at S.
C3_SiteCountsOutcomes ==
    (AfterPie /\ last.site # ALL) =>
        /\ DOMAIN last.pie \subseteq {"Success", "Failure"}
        /\ CountAt(last.pie, "Success") = NumRows(spacex_df, last.site, 1)
        /\ CountAt(last.pie, "Failure") = NumRows(spacex_df, last.site, 0)
        /\ CountAt(last.pie, "Success") + CountAt(last.pie, "Failure")
             = Cardinality({ i \in DOMAIN spacex_df : Site(spacex_df[i]) = last.site })

\* A site with different numbers of successes and failures, both present.
C3_Witness ==
    /\ AfterPie /\ last.site # ALL
    /\ DOMAIN last.pie = {"Success", "Failure"}
    /\ last.pie["Success"] # last.pie["Failure"]

\* C4 as stated: whenever the file cannot be read, missing or malformed, startup
\* ends with the fallback table bound and the condition reported.
C4_AnyReadFailureFallsBack ==
    (file.state # "ok" /\ pc # "start") =>
        pc = "loaded" /\ spacex_df = FallbackDf /\ notice # ""

\* C4 amended: a missing file ends with the fallback table bound and the
\* not-found notice printed; a malformed file ends the program with no table.
C4_MissingFileFallsBack ==
    /\ (file.state = "missing" /\ pc # "start") =>
          pc = "loaded" /\ spacex_df = FallbackDf /\ notice = NotFoundMessage
    /\ (file.state \in {"empty_file", "ragged_rows"} /\ pc # "start") =>
          pc = "crashed" /\ notice = ""

C4_Witness ==
    file.state = "missing" /\ pc = "loaded" /\ notice = NotFoundMessage /\ last.fn # "none"

\* Whether a range lies entirely outside the observed payloads.
OutsideObserved(range) ==
    min_payload # NaN /\ (range[2] < min_payload \/ range[1] > max_payload)

\* C5: a site that is neither ALL nor a site of the table gives the empty
\* mapping and the empty frame; a range with low > high, or lying entirely
\* outside the observed payloads, gives the empty frame.
C5_DegenerateInputsGiveEmpty ==
    /\ (AfterPie /\ last.site \notin launch_sites \cup {ALL}) => DOMAIN last.pie = {}
    /\ (AfterScatter /\ last.site \notin launch_sites \cup {ALL}) => Len(last.scatter) = 0
    /\ (AfterScatter /\ last.range[1] > last.range[2]) => Len(last.scatter) = 0
    /\ (AfterScatter /\ OutsideObserved(last.range)) => Len(last.scatter) = 0

\* An inverted range over a table holding rows above its upper and below its
\* lower end.
C5_Witness ==
    /\ AfterScatter /\ last.site = ALL
    /\ last.range[1] > last.range[2]
    /\ \E i, j \in DOMAIN spacex_df :
          Payload(spacex_df[i]) >= last.range[1] /\ Payload(spacex_df[j]) <= last.range[2]

\* C6: after load, whatever invocations ran before, spacex_df is the table
\* that was loaded, and the figure of the last invocation is the one its own
\* arguments give on that table.
C6_QueriesIndependent ==
    pc = "loaded" =>
        /\ spacex_df = LoadedTable
        /\ AfterPie => last.pie = PieData(LoadedTable, last.site)
        /\ AfterScatter => last.scatter = ScatterData(LoadedTable, last.site, last.range)

\* An invocation that kept some rows of the table and dropped others.
C6_Witness ==
    /\ AfterScatter
    /\ spacex_df = LoadedTable
    /\ Len(last.scatter) >= 1
    /\ Len(last.scatter) < Len(LoadedTable)

\* r2 is r1 widened: low2 <= low1 and high1 <= high2.
Widens(r2, r1) ==
    /\ r1[1] # NaN /\ r2[1] # NaN
    /\ r2[1] <= r1[1] /\ r1[2] <= r2[2]

\* C7: the frame of a range is a subsequence of the frame of every range that
\* widens it (same site), so widening never shortens the result.
C7_RangeMonotone ==
    AfterScatter =>
        \A r2 \in RangeArgs :
            Widens(r2, last.range) =>
                LET wider == ScatterData(spacex_df, last.site, r2)
                IN  IsSubseq(last.scatter, wider) /\ Len(last.scatter) <= Len(wider)

\* A non-empty result that a wider range, lower at the low end, extends.
C7_Witness ==
    /\ AfterScatter
    /\ Len(last.scatter) >= 1
    /\ \E r2 \in RangeArgs :
          /\ Widens(r2, last.range)
          /\ r2[1] < last.range[1]
          /\ Len(ScatterData(spacex_df, last.site, r2)) > Len(last.scatter)

\* C8: with the file missing, the loaded table is not empty, holds a site,
\* holds a row with class 1 and a row with class 0, and every row has a site,
\* a payload >= 0 and a class in {0, 1}.
C8_FallbackGuarantee ==
    (file.state = "missing" /\ pc = "loaded") =>
        /\ Len(spacex_df) >= 1
        /\ Cardinality(launch_sites) >= 1
        /\ \E i \in DOMAIN spacex_df : spacex_df[i]["class"] = 1
        /\ \E i \in DOMAIN spacex_df : spacex_df[i]["class"] = 0
        /\ \A i \in DOMAIN spacex_df :
              /\ Site(spacex_df[i]) \in STRING
              /\ Site(spacex_df[i]) # ""
              /\ Payload(spacex_df[i]) >= 0
              /\ spacex_df[i]["class"] \in {0, 1}

C8_Witness ==
    file.state = "missing" /\ pc = "loaded" /\ last.fn = "none" /\ launch_sites # {}

\* C9: with ALL, a site is a key of get_pie_chart's mapping exactly when the
\* table holds a row of that site with class 1; every count is >= 1, and a
\* site whose rows all have class 0 is absent.
C9_ZeroSuccessSitesAbsent ==
    (AfterPie /\ last.site = ALL) =>
        /\ \A s \in launch_sites : (s \in DOMAIN last.pie) <=> (NumRows(spacex_df, s, 1) >= 1)
        /\ DOMAIN last.pie \subseteq launch_sites
        /\ \A s \in DOMAIN last.pie : last.pie[s] >= 1

\* A table with a site that has launches but no success, next to one that has.
C9_Witness ==
    /\ AfterPie /\ last.site = ALL
    /\ DOMAIN last.pie # {}
    /\ \E s \in launch_sites : s \notin DOMAIN last.pie

\* C10: invoked with the layout defaults (ALL, [min_payload, max_payload]),
\* get_scatter_chart's frame is the whole of spacex_df.
C10_DefaultFilterKeepsAll ==
    (AfterScatter /\ last.site = DropdownDefault /\ last.range = SliderDefault) =>
        last.scatter = spacex_df

\* The defaults over a table whose payloads differ.
C10_Witness ==
    /\ AfterScatter /\ last.site = DropdownDefault /\ last.range = SliderDefault
    /\ Len(spacex_df) >= 2
    /\ min_payload < max_payload

====
